---- MODULE Spec2Model ----
(***************************************************************************)
(* The sale transaction engine of pos-api: TransactionService.Create and   *)
(* TransactionService.UpdateStatus running on concurrent request workers   *)
(* against the products and transactions tables.  Every repository call is *)
(* one database statement and therefore one atomic step; the service code  *)
(* between two statements runs on values it has already read.  Spec serves *)
(* the requests concurrently, SpecSerial serves them one after the other.  *)
(* SpecProduct is ProductService.UpdateStock on the same products table,    *)
(* and SpecLimiter is IPRateLimiter, the per-IP rate limiter in front of    *)
(* every route.                                                            *)
(***************************************************************************)
EXTENDS Integers, Sequences, FiniteSets, TLC

\* ---------------------------------------------------------------- bounds
NumSlots == 2
MaxOps == 3
MaxCreates == 2
MaxUpdates == 2
NumProducts == 1
InitStock == 2
MaxQty == 1
MaxItems == 2
NumPrefixes == 3
MaxFaults == 1
MaxDiscount == 12
MaxEdits == 3
NumIPs == 2
NumRequests == 3
MaxLimiters == 1
MaxCleanups == 2

\* The POS checkout body is bound without validation, so a quantity may be
\* zero or negative there: MinQty is the quantity that stands for them.
MinQty == 0 - 1

Slots == 1..NumSlots

\* ------------------------------------------------------- program constants
StatusPending == "pending"
StatusCompleted == "completed"
StatusCancelled == "cancelled"
StatusRefunded == "refunded"

\* validate:"required,oneof=cash card ewallet"
DTOPaymentMethods == {"cash", "card", "ewallet"}

\* CHECK (payment_method IN ('cash', 'card', 'qris', 'transfer'))
SchemaPaymentMethods == {"cash", "card", "qris", "transfer"}

\* validate:"required,oneof=completed cancelled refunded"
DTOStatuses == {StatusCompleted, StatusCancelled, StatusRefunded}

RoleAdmin == "admin"
RoleManager == "manager"
RoleCashier == "cashier"

\* transactions.PATCH("/:id/status",
\*     middleware.RequireRole(models.RoleAdmin, models.RoleManager), ...)
UpdateStatusRoles == {RoleAdmin, RoleManager}

\* TaxRate = 0.10, as a percentage.
TaxRatePercent == 10

LoyaltyPointsPerTransaction == 10

\* Money is counted in thousandths of the currency unit: a price column is
\* DECIMAL(10, 2), so every price is a whole number of hundredths and a
\* tenth of any sum of prices is a whole number of thousandths.
Amount(hundredths) == hundredths * 10

\* The price of every product of the catalogue.
UnitPrice == Amount(1)

\* ------------------------------------------------------------------ inputs
\* Product ids a request may name: 0 is an id with no row, 1..NumProducts are
\* active products, NumProducts + 1 is a product whose is_active is false.
MissingProduct == 0
InactiveProduct == NumProducts + 1
ProductRows == 1..InactiveProduct
ProductIds == 0..InactiveProduct

\* Payment methods a request may carry: one accepted by DTO and schema, one
\* accepted by the DTO only.
PaymentInputs == {"cash", "ewallet", "bitcoin"}

\* Customers a request may name: 0 is a request without customer_id, 1 is
\* the customer of the customers table, 2 is an id with no row.
NoCustomer == 0
CustomerRows == {1}
CustomerInputs == {NoCustomer} \cup CustomerRows \cup {2}

\* discount_amount of a request: validate:"gte=0".
DiscountInputs == {0, MaxDiscount}

StatusInputs == {StatusPending, StatusCompleted, StatusCancelled, StatusRefunded}

Entries == {"api", "pos"}

\* Roles of the authenticated user of a request.
RoleInputs == {RoleAdmin, RoleManager, RoleCashier}

\* -------------------------------------------------------------------- state
VARIABLES
    products,      \* products table: id -> [stock, is_active]
    transactions,  \* transactions table: id -> row
    transaction_items, \* transaction_items table: transaction id -> items
    customers,     \* customers table: id -> [loyalty_points]
    uuids,         \* number of transaction ids drawn by uuid.New()
    updates,       \* number of UpdateStatus calls started
    faults,        \* number of database statements that returned an error
    call,          \* per worker: the request and the locals of the call
    edit,          \* per worker: the request and locals of a stock edit
    edits,         \* number of ProductService.UpdateStock calls started
    limiters,      \* IPRateLimiter.limiters: ip -> limiter
    mu,            \* IPRateLimiter.mu: who holds the RWMutex
    created,       \* number of limiters rate.NewLimiter has returned
    resets,        \* number of times Cleanup has reset the map
    req,           \* per request of the rate limiter: ip and locals
    cleanup        \* the Cleanup goroutine

saleVars == <<transactions, transaction_items, customers, uuids, updates, call>>

editVars == <<edit, edits>>

limiterVars == <<limiters, mu, created, resets, req, cleanup>>

vars == <<products, faults, saleVars, editVars, limiterVars>>

Stock(prods) == [p \in DOMAIN prods |-> prods[p].stock]

NoStock == [p \in ProductRows |-> 0]

\* A worker's record.  kind, entry, id and status are the request; items,
\* idx, stockRead, txnStatus, customer and pointsRead are the locals of the
\* service method (customer is the customer_id of the request once the
\* method has used it); result
\* is what the call returned.  solo and pre are history: solo says that no
\* other call has been in flight since this one began, and pre is the stock
\* of every product when it began (kept only while solo holds).
NoCall ==
    [kind |-> "idle", entry |-> "api", pc |-> "idle", id |-> 0,
     status |-> StatusCompleted, items |-> <<>>, idx |-> 0,
     stockRead |-> 0, txnStatus |-> StatusCompleted,
     customer |-> NoCustomer, pointsRead |-> 0, result |-> "none",
     solo |-> FALSE, pre |-> NoStock]

InFlight(c) == c.pc \notin {"idle", "done"}

\* A worker's record for PATCH /products/:id/stock: id, operation and
\* quantity are the request, newStock is the local of the service method,
\* result is what the call returned.
NoEdit ==
    [pc |-> "idle", id |-> 0, operation |-> "add", quantity |-> 0,
     newStock |-> 0, result |-> "none"]

EditInFlight(e) == e.pc \notin {"idle", "done"}

IPs == 1..NumIPs
Requests == 1..NumRequests

\* Holders of the write lock of mu: nobody, a request, or Cleanup.
NoHolder == 0
Cleaner == NumRequests + 1

\* A request's record: ip is c.ClientIP(); limiter and exists are the locals
\* of getLimiter (limiter 0 is nil).  missed and epoch are history: missed
\* says that the read under RLock found no limiter, epoch is the number of
\* resets of the map when the request got its limiter.
NoRequest ==
    [pc |-> "idle", ip |-> 0, limiter |-> 0, exists |-> FALSE,
     missed |-> FALSE, epoch |-> 0]

\* A database statement either runs or returns an error (connection loss,
\* cancelled request context, timeout).
DBErrors == IF faults < MaxFaults THEN {FALSE, TRUE} ELSE {FALSE}

Fault(err) == faults' = IF err THEN faults + 1 ELSE faults

Init ==
    /\ products = [p \in ProductRows |->
                     [stock |-> InitStock, is_active |-> p # InactiveProduct,
                      price |-> UnitPrice]]
    /\ transactions = <<>>
    /\ transaction_items = <<>>
    /\ customers = [c \in CustomerRows |-> [loyalty_points |-> 0]]
    /\ uuids = 0
    /\ updates = 0
    /\ faults = 0
    /\ call = [s \in Slots |-> NoCall]
    /\ edit = [s \in Slots |-> NoEdit]
    /\ edits = 0
    /\ limiters = <<>>
    /\ mu = [readers |-> {}, writer |-> NoHolder]
    /\ created = 0
    /\ resets = 0
    /\ req = [r \in Requests |-> NoRequest]
    /\ cleanup = [pc |-> "idle", runs |-> 0]

\* ------------------------------------------------------------ repositories
\* productRepository.GetByID: the row, or nil when no row has the id.
NoProduct == [found |-> FALSE, stock |-> 0, is_active |-> FALSE, price |-> 0]

ProductGetByID(prods, id) ==
    IF id \in DOMAIN prods
    THEN [found |-> TRUE, stock |-> prods[id].stock,
          is_active |-> prods[id].is_active, price |-> prods[id].price]
    ELSE NoProduct

\* Mutation of productRepository.UpdateStock: the WHERE clause is missing,
\* every row gets the stock.
ProductUpdateStockNoWhere(prods, id, quantity) ==
    [p \in DOMAIN prods |-> [prods[p] EXCEPT !.stock = quantity]]

\* productRepository.UpdateStock: UPDATE products SET stock = $1 WHERE id = $2.
\* The written value is the absolute stock; an id with no row updates nothing.
ProductUpdateStock(prods, id, quantity) ==
    IF id \in DOMAIN prods THEN [prods EXCEPT ![id].stock = quantity] ELSE prods

\* Mutation of Product.HasSufficientStock: the comparison is left out.
HasSufficientStockAlways(stock, quantity) == TRUE

\* Product.HasSufficientStock
HasSufficientStock(stock, quantity) == stock >= quantity

\* Transaction.IsCancellable
IsCancellable(status) == status = StatusPending

\* Transaction.IsRefundable
IsRefundable(status) == status = StatusCompleted

\* fmt.Sprintf("INV-%s-%s", now.Format("20060102"), transactionID[:8]): the
\* invoice number keeps only the first 8 characters of the transaction id, so
\* two different ids with the same prefix give the same invoice number.
InvoiceNumber(prefix) == <<"INV", prefix>>

\* Mutation of the transactions table: invoice_number is not UNIQUE.
TransactionInsertAllowedNoUnique(txns, custs, id, row) ==
    /\ row.payment_method \in SchemaPaymentMethods
    /\ id \notin DOMAIN txns
    /\ row.customer_id = NoCustomer \/ row.customer_id \in DOMAIN custs

\* The constraints of the transactions table on a new row: the CHECK on
\* payment_method, PRIMARY KEY (id), UNIQUE (invoice_number) and
\* customer_id REFERENCES customers(id).
TransactionInsertAllowed(txns, custs, id, row) ==
    /\ row.payment_method \in SchemaPaymentMethods
    /\ id \notin DOMAIN txns
    /\ \A t \in DOMAIN txns : txns[t].invoice_number # row.invoice_number
    /\ row.customer_id = NoCustomer \/ row.customer_id \in DOMAIN custs

\* The error the INSERT of a refused row returns.
TransactionInsertError(txns, custs, id, row) ==
    IF row.payment_method \notin SchemaPaymentMethods THEN "check_violation"
    ELSE IF \E t \in DOMAIN txns : txns[t].invoice_number = row.invoice_number
    THEN "duplicate_invoice"
    ELSE IF row.customer_id # NoCustomer /\ row.customer_id \notin DOMAIN custs
    THEN "customer_fk_violation"
    ELSE "duplicate_key"

\* The statements of transactionRepository.Create, numbered: 1 is BeginTx,
\* 2 the INSERT of the sale, 2 + i the INSERT of item i, and the last one
\* Commit.  failAt is the statement on which the database connection
\* fails, 0 when it does not fail.
CommitStatement(items) == Len(items) + 3

FirstItems(items, n) == [i \in 1..n |-> items[i]]

\* Mutation of transactionRepository.Create: the statements run without
\* BeginTx, each one is committed as it runs.
TransactionCreateNoTx(txns, titems, custs, id, row, items, failAt) ==
    IF failAt \in {1, 2}
    THEN [transactions |-> txns, transaction_items |-> titems, err |-> "persist_error"]
    ELSE IF ~TransactionInsertAllowed(txns, custs, id, row)
    THEN [transactions |-> txns, transaction_items |-> titems,
          err |-> TransactionInsertError(txns, custs, id, row)]
    ELSE IF failAt \in 3..(CommitStatement(items) - 1)
    THEN [transactions |-> (id :> row) @@ txns,
          transaction_items |-> (id :> FirstItems(items, failAt - 3)) @@ titems,
          err |-> "persist_error"]
    ELSE [transactions |-> (id :> row) @@ txns,
          transaction_items |-> (id :> items) @@ titems,
          err |-> IF failAt = 0 THEN "none" ELSE "persist_error"]

\* transactionRepository.Create: BeginTx, the INSERT of the sale, the INSERT
\* of every item, Commit, with defer tx.Rollback().  The result is the two
\* tables and the error returned: when a statement fails or the sale row is
\* refused, nothing of the sale is in the tables.
TransactionCreate(txns, titems, custs, id, row, items, failAt) ==
    IF failAt # 0
    THEN [transactions |-> txns, transaction_items |-> titems, err |-> "persist_error"]
    ELSE IF ~TransactionInsertAllowed(txns, custs, id, row)
    THEN [transactions |-> txns, transaction_items |-> titems,
          err |-> TransactionInsertError(txns, custs, id, row)]
    ELSE [transactions |-> (id :> row) @@ txns,
          transaction_items |-> (id :> items) @@ titems,
          err |-> "none"]

\* transactionRepository.GetByID: the sale row, then the rows of
\* transaction_items with its id.
NoTransaction == [found |-> FALSE, status |-> StatusCompleted, items |-> <<>>]

TransactionGetByID(txns, titems, id) ==
    IF id \in DOMAIN txns
    THEN [found |-> TRUE, status |-> txns[id].status,
          items |-> IF id \in DOMAIN titems THEN titems[id] ELSE <<>>]
    ELSE NoTransaction

\* Mutation of transactionRepository.UpdateStatus: the UPDATE also sets
\* total_amount.
TransactionUpdateStatusAndTotal(txns, id, status) ==
    IF id \in DOMAIN txns
    THEN [txns EXCEPT ![id].status = status, ![id].total_amount = 0]
    ELSE txns

\* transactionRepository.UpdateStatus: UPDATE transactions SET status = ?
\* WHERE id = ?, with no condition on the stored status.
TransactionUpdateStatus(txns, id, status) ==
    IF id \in DOMAIN txns THEN [txns EXCEPT ![id].status = status] ELSE txns

\* customerRepository.GetByID: the row, or nil when no row has the id.
NoCustomerRow == [found |-> FALSE, loyalty_points |-> 0]

CustomerGetByID(custs, id) ==
    IF id \in DOMAIN custs
    THEN [found |-> TRUE, loyalty_points |-> custs[id].loyalty_points]
    ELSE NoCustomerRow

\* customerRepository.UpdateLoyaltyPoints:
\* UPDATE customers SET loyalty_points = ? WHERE id = ?
CustomerUpdateLoyaltyPoints(custs, id, points) ==
    IF id \in DOMAIN custs THEN [custs EXCEPT ![id].loyalty_points = points] ELSE custs

\* ------------------------------------------------------------------ totals
\* Mutation of itemSubtotal: the quantity is left out.
ItemSubtotalNoQuantity(price, quantity) == price

\* itemSubtotal := product.Price * float64(itemReq.Quantity)
ItemSubtotal(price, quantity) == price * quantity

\* subtotal += itemSubtotal, over the items in the order of the request.
RECURSIVE Subtotal(_)
Subtotal(items) ==
    IF items = <<>> THEN 0
    ELSE Subtotal(FirstItems(items, Len(items) - 1)) + items[Len(items)].subtotal

\* taxAmount := subtotal * TaxRate
TaxAmount(subtotal) == (subtotal * TaxRatePercent) \div 100

\* totalAmount := subtotal + taxAmount - req.DiscountAmount
TotalAmount(subtotal, taxAmount, discount) == subtotal + taxAmount - discount

\* Mutation of the status of a new sale.
NewTransactionStatusPending == StatusPending

\* Status: models.StatusCompleted in the Transaction that Create builds.
NewTransactionStatus == StatusCompleted

\* Mutation of the loyalty credit: nothing is added.
LoyaltyPointsAfterNone(points) == points

\* newPoints := customer.LoyaltyPoints + LoyaltyPointsPerTransaction
LoyaltyPointsAfter(points) == points + LoyaltyPointsPerTransaction

\* --------------------------------------------------------- call bookkeeping
\* A call returns: the worker keeps only what it returned.
Return(s, c, res) ==
    call' = [call EXCEPT ![s] =
               [NoCall EXCEPT !.pc = "done", !.kind = c.kind, !.result = res]]

Continue(s, c) == call' = [call EXCEPT ![s] = c]

\* A request arrives and becomes the call c on the first free worker.
Begin(s, c) ==
    /\ ~InFlight(call[s])
    /\ \A u \in Slots : u < s => InFlight(call[u])
    /\ uuids + updates < MaxOps
    /\ IF c.kind = "create" THEN uuids < MaxCreates ELSE updates < MaxUpdates
    /\ call' = [t \in Slots |->
                  IF t = s
                  THEN IF \A u \in Slots \ {s} : ~InFlight(call[u])
                       THEN [c EXCEPT !.solo = TRUE, !.pre = Stock(products)]
                       ELSE c
                  ELSE IF InFlight(call[t])
                       THEN [call[t] EXCEPT !.solo = FALSE, !.pre = NoStock]
                       ELSE call[t]]

\* Quantities a request can carry into the service: POST /transactions
\* validates gt=0 on every item, the POS checkout validates nothing.
Quantities(entry) ==
    IF entry = "api" THEN 1..MaxQty ELSE {MinQty} \cup (1..MaxQty)

MinItems(entry) == IF entry = "api" THEN 1 ELSE 0

\* Payment methods a request can carry into the service: POST /transactions
\* validates oneof=cash card ewallet, the POS checkout validates nothing.
PaymentMethods(entry) ==
    IF entry = "api" THEN PaymentInputs \cap DTOPaymentMethods ELSE PaymentInputs

\* Mutation of newStock: the quantity is not subtracted.
StockAfterSaleStale(stock, quantity) == stock

\* newStock := product.Stock - itemReq.Quantity
StockAfterSale(stock, quantity) == stock - quantity

\* newStock := product.Stock + item.Quantity
StockAfterRestore(stock, quantity) == stock + quantity

\* ------------------------------------------------ TransactionService.Create
\* A request reaches the service: transactionID := uuid.New().String().
StartCreate(s) ==
    /\ \E entry \in Entries :
         Begin(s, [NoCall EXCEPT !.kind = "create", !.entry = entry,
                                 !.pc = "c_loop", !.id = uuids + 1])
    /\ uuids' = uuids + 1
    /\ UNCHANGED <<products, transactions, transaction_items, customers,
                   updates, faults>>

\* One iteration of `for _, itemReq := range req.Items` up to the stock
\* write: productRepo.GetByID, the three checks on the row it returned and
\* the line item built from it.  The items of the request are drawn when the
\* loop reaches them.
CreateGetProductWith(s, pid, qty, err) ==
    LET c == call[s]
        product == ProductGetByID(products, pid)
    IN
    /\ c.kind = "create" /\ c.pc = "c_loop"
    /\ Len(c.items) < MaxItems
    /\ Fault(err)
    /\ IF err THEN Return(s, c, "db_error")
       ELSE IF ~product.found THEN Return(s, c, "product_not_found")
       ELSE IF ~product.is_active THEN Return(s, c, "product_inactive")
       ELSE IF ~HasSufficientStock(product.stock, qty)
            THEN Return(s, c, "insufficient_stock")
       ELSE Continue(s, [c EXCEPT
                !.items = Append(@, [product_id |-> pid, quantity |-> qty,
                                     unit_price |-> product.price,
                                     subtotal |-> ItemSubtotal(product.price, qty)]),
                !.stockRead = product.stock,
                !.pc = "c_stock"])
    /\ UNCHANGED <<products, transactions, transaction_items, customers,
                   uuids, updates>>

CreateGetProduct(s) ==
    \E pid \in ProductIds, qty \in Quantities(call[s].entry), err \in DBErrors :
       CreateGetProductWith(s, pid, qty, err)

\* newStock := product.Stock - itemReq.Quantity; productRepo.UpdateStock.
CreateUpdateStock(s) ==
    LET c == call[s]
        item == c.items[Len(c.items)]
        newStock == StockAfterSale(c.stockRead, item.quantity)
    IN
    /\ c.kind = "create" /\ c.pc = "c_stock"
    /\ \E err \in DBErrors :
         /\ Fault(err)
         /\ IF err
            THEN /\ UNCHANGED products
                 /\ Return(s, c, "db_error")
            ELSE /\ products' = ProductUpdateStock(products, item.product_id, newStock)
                 /\ Continue(s, [c EXCEPT !.pc = "c_loop"])
    /\ UNCHANGED <<transactions, transaction_items, customers, uuids, updates>>

\* The 8-character prefixes uuid.New() can give a new transaction id: the
\* prefix of a persisted sale, or a prefix no persisted sale has.  Prefixes
\* are opaque, so they are numbered in the order in which sales are persisted.
Prefixes(txns) ==
    LET used == Cardinality(DOMAIN txns) IN
    1..(IF used < NumPrefixes THEN used + 1 ELSE NumPrefixes)

\* The statements of transactionRepo.Create on which the connection can fail.
FailPoints(items) ==
    IF faults < MaxFaults THEN 0..CommitStatement(items) ELSE {0}

\* The Transaction that Create builds after the loop.
NewTransaction(items, prefix, payment, discount, customer) ==
    LET subtotal == Subtotal(items)
        taxAmount == TaxAmount(subtotal)
    IN [invoice_number |-> InvoiceNumber(prefix),
        customer_id |-> customer,
        subtotal |-> subtotal,
        tax_amount |-> taxAmount,
        discount_amount |-> discount,
        total_amount |-> TotalAmount(subtotal, taxAmount, discount),
        payment_method |-> payment,
        status |-> NewTransactionStatus]

\* The loop is over: the totals, the Transaction in status completed and
\* transactionRepo.Create.  The first 8 characters of the transaction id, the
\* payment method, the discount and the customer of the request are first
\* used here, and are drawn here.  After the sale is persisted a request with
\* a customer goes on to the loyalty points, any other returns the sale.
CreatePersistWith(s, failAt, prefix, payment, discount, customer) ==
    LET c == call[s]
        row == NewTransaction(c.items, prefix, payment, discount, customer)
        db == TransactionCreate(transactions, transaction_items, customers,
                                c.id, row, c.items, failAt)
    IN
    /\ c.kind = "create" /\ c.pc = "c_loop"
    /\ Len(c.items) >= MinItems(c.entry)
    /\ Fault(failAt # 0)
    /\ transactions' = db.transactions
    /\ transaction_items' = db.transaction_items
    /\ IF db.err # "none" THEN Return(s, c, db.err)
       ELSE IF customer # NoCustomer
       THEN Continue(s, [c EXCEPT !.customer = customer, !.pc = "l_get"])
       ELSE Return(s, c, "ok")
    /\ UNCHANGED <<products, customers, uuids, updates>>

\* A failed statement gives the same tables and the same error whatever the
\* row is, so the failures are drawn for one row only.
CreatePersistOf(s, discounts) ==
    \E prefix \in Prefixes(transactions), payment \in PaymentMethods(call[s].entry),
       discount \in discounts, customer \in CustomerInputs :
         \E failAt \in IF prefix = 1 /\ payment = "cash" /\ discount = 0
                           /\ customer = NoCustomer
                        THEN FailPoints(call[s].items) ELSE {0} :
            CreatePersistWith(s, failAt, prefix, payment, discount, customer)

CreatePersist(s) == CreatePersistOf(s, DiscountInputs)

\* The discount of a request is used in one expression of Create and
\* reaches no shared state, so it plays no part in how calls interleave:
\* concurrent runs are explored with requests that carry no discount.
CreatePersistNoDiscount(s) == CreatePersistOf(s, {0})

\* customerRepo.GetByID(ctx, *req.CustomerID): on an error or a missing row
\* the points are skipped and the sale is returned.
CreateGetCustomer(s) ==
    LET c == call[s] IN
    /\ c.kind = "create" /\ c.pc = "l_get"
    /\ \E err \in DBErrors :
         LET customer == CustomerGetByID(customers, c.customer) IN
         /\ Fault(err)
         /\ IF ~err /\ customer.found
            THEN Continue(s, [c EXCEPT !.pointsRead = customer.loyalty_points,
                                       !.pc = "l_put"])
            ELSE Return(s, c, "ok")
    /\ UNCHANGED <<products, transactions, transaction_items, customers,
                   uuids, updates>>

\* _ = customerRepo.UpdateLoyaltyPoints(ctx, *req.CustomerID, newPoints)
CreateUpdateLoyaltyPoints(s) ==
    LET c == call[s] IN
    /\ c.kind = "create" /\ c.pc = "l_put"
    /\ \E err \in DBErrors :
         /\ Fault(err)
         /\ customers' = IF err THEN customers
                         ELSE CustomerUpdateLoyaltyPoints(customers, c.customer,
                                  LoyaltyPointsAfter(c.pointsRead))
         /\ Return(s, c, "ok")
    /\ UNCHANGED <<products, transactions, transaction_items, uuids, updates>>

\* ------------------------------------------ TransactionService.UpdateStatus
\* Mutation of RequireRole: every role is allowed.
RequireRoleAny(roles, role) == TRUE

\* middleware.RequireRole: the role of the user is one of the roles given.
RequireRole(roles, role) == role \in roles

\* RequireRole answers 403 and aborts: the request never becomes a call of
\* the service.
Forbid(s) ==
    /\ ~InFlight(call[s])
    /\ \A u \in Slots : u < s => InFlight(call[u])
    /\ uuids + updates < MaxOps /\ updates < MaxUpdates
    /\ call' = [call EXCEPT ![s] =
                  [NoCall EXCEPT !.pc = "done", !.kind = "update",
                                 !.result = "forbidden"]]

\* A PATCH /transactions/:id/status request of a user with the given role:
\* RequireRole, then the handler, whose body passed validation, calls the
\* service.  Id 0 stands for an id that uuid.New() never produced.
StartUpdateWith(s, id, status, role) ==
    /\ IF RequireRole(UpdateStatusRoles, role)
       THEN Begin(s, [NoCall EXCEPT !.kind = "update", !.pc = "u_load",
                                    !.id = id, !.status = status])
       ELSE Forbid(s)
    /\ updates' = updates + 1
    /\ UNCHANGED <<products, transactions, transaction_items, customers,
                   uuids, faults>>

StartUpdate(s) ==
    \E id \in 0..uuids, status \in StatusInputs \cap DTOStatuses, role \in RoleInputs :
       StartUpdateWith(s, id, status, role)

\* After the restore of item idx: the next item, or the status write.
NextRestore(c) ==
    IF c.idx < Len(c.items)
    THEN [c EXCEPT !.idx = @ + 1, !.pc = "u_get"]
    ELSE [c EXCEPT !.pc = "u_status"]

\* Mutation of the load step: the requested status is written before the
\* transition is checked.
UpdateLoadWriteFirst(s) ==
    LET c == call[s] IN
    /\ c.kind = "update" /\ c.pc = "u_load"
    /\ \E err \in DBErrors :
         LET transaction == TransactionGetByID(transactions, transaction_items, c.id)
             loaded == [c EXCEPT !.txnStatus = transaction.status,
                                 !.items = transaction.items]
         IN
         /\ Fault(err)
         /\ transactions' = IF err THEN transactions
                            ELSE TransactionUpdateStatus(transactions, c.id, c.status)
         /\ IF err THEN Return(s, c, "db_error")
            ELSE IF ~transaction.found THEN Return(s, c, "transaction_not_found")
            ELSE IF c.status = StatusCancelled /\ ~IsCancellable(transaction.status)
            THEN Return(s, c, "cannot_be_cancelled")
            ELSE IF c.status = StatusRefunded /\ ~IsRefundable(transaction.status)
            THEN Return(s, c, "cannot_be_refunded")
            ELSE IF c.status \in {StatusCancelled, StatusRefunded}
            THEN Continue(s, NextRestore(loaded))
            ELSE Continue(s, [loaded EXCEPT !.pc = "u_status"])
    /\ UNCHANGED <<products, transaction_items, customers, uuids, updates>>

\* transactionRepo.GetByID and the switch on req.Status: cancelled and
\* refunded are checked against the status just read, any other requested
\* status goes to the status write unchecked.
UpdateLoad(s) ==
    LET c == call[s] IN
    /\ c.kind = "update" /\ c.pc = "u_load"
    /\ \E err \in DBErrors :
         LET transaction == TransactionGetByID(transactions, transaction_items, c.id)
             loaded == [c EXCEPT !.txnStatus = transaction.status,
                                 !.items = transaction.items]
         IN
         /\ Fault(err)
         /\ IF err THEN Return(s, c, "db_error")
            ELSE IF ~transaction.found THEN Return(s, c, "transaction_not_found")
            ELSE IF c.status = StatusCancelled /\ ~IsCancellable(transaction.status)
            THEN Return(s, c, "cannot_be_cancelled")
            ELSE IF c.status = StatusRefunded /\ ~IsRefundable(transaction.status)
            THEN Return(s, c, "cannot_be_refunded")
            ELSE IF c.status \in {StatusCancelled, StatusRefunded}
            THEN Continue(s, NextRestore(loaded))
            ELSE Continue(s, [loaded EXCEPT !.pc = "u_status"])
    /\ UNCHANGED <<products, transactions, transaction_items, customers,
                   uuids, updates>>

\* The restore loop reads the product of item idx; on an error or a missing
\* row the item is skipped.
UpdateGetProduct(s) ==
    LET c == call[s]
        item == c.items[c.idx]
    IN
    /\ c.kind = "update" /\ c.pc = "u_get"
    /\ \E err \in DBErrors :
         LET product == ProductGetByID(products, item.product_id) IN
         /\ Fault(err)
         /\ IF ~err /\ product.found
            THEN Continue(s, [c EXCEPT !.stockRead = product.stock, !.pc = "u_stock"])
            ELSE Continue(s, NextRestore(c))
    /\ UNCHANGED <<products, transactions, transaction_items, customers,
                   uuids, updates>>

\* newStock := product.Stock + item.Quantity; _ = productRepo.UpdateStock.
UpdateRestoreStock(s) ==
    LET c == call[s]
        item == c.items[c.idx]
        newStock == StockAfterRestore(c.stockRead, item.quantity)
    IN
    /\ c.kind = "update" /\ c.pc = "u_stock"
    /\ \E err \in DBErrors :
         /\ Fault(err)
         /\ products' = IF err THEN products
                        ELSE ProductUpdateStock(products, item.product_id, newStock)
         /\ Continue(s, NextRestore(c))
    /\ UNCHANGED <<transactions, transaction_items, customers, uuids, updates>>

\* transactionRepo.UpdateStatus(ctx, id, req.Status)
UpdateWriteStatus(s) ==
    LET c == call[s] IN
    /\ c.kind = "update" /\ c.pc = "u_status"
    /\ \E err \in DBErrors :
         /\ Fault(err)
         /\ IF err
            THEN /\ UNCHANGED transactions
                 /\ Return(s, c, "db_error")
            ELSE /\ transactions' = TransactionUpdateStatus(transactions, c.id, c.status)
                 /\ Return(s, c, "ok")
    /\ UNCHANGED <<products, transaction_items, customers, uuids, updates>>

\* ------------------------------------------------ ProductService.UpdateStock
\* UpdateStockRequest.Operation: validate:"required,oneof=add subtract set"
StockOperations == {"add", "subtract", "set"}

\* UpdateStockRequest.Quantity: validate:"required" on an int refuses 0 and
\* nothing else, so a negative quantity passes.
StockQuantities == {MinQty} \cup (1..MaxQty)

EditReturn(s, res) ==
    edit' = [edit EXCEPT ![s] = [NoEdit EXCEPT !.pc = "done", !.result = res]]

\* The switch on req.Operation.
NewStock(operation, stock, quantity) ==
    CASE operation = "add" -> stock + quantity
      [] operation = "subtract" -> stock - quantity
      [] operation = "set" -> quantity

\* ProductHandler.UpdateStock: the body passed validation and the service is
\* called, on the first free worker.
StartUpdateStock(s) ==
    /\ ~EditInFlight(edit[s])
    /\ \A u \in Slots : u < s => EditInFlight(edit[u])
    /\ edits < MaxEdits
    /\ \E id \in ProductIds, operation \in StockOperations,
          quantity \in StockQuantities :
         edit' = [edit EXCEPT ![s] =
                    [NoEdit EXCEPT !.pc = "s_get", !.id = id,
                                   !.operation = operation,
                                   !.quantity = quantity]]
    /\ edits' = edits + 1
    /\ UNCHANGED <<products, faults>>

\* productRepo.GetByID, then the switch: only subtract checks the new stock.
UpdateStockGetProduct(s) ==
    LET e == edit[s] IN
    /\ e.pc = "s_get"
    /\ \E err \in DBErrors :
         LET product == ProductGetByID(products, e.id)
             newStock == NewStock(e.operation, product.stock, e.quantity)
         IN
         /\ Fault(err)
         /\ IF err THEN EditReturn(s, "db_error")
            ELSE IF ~product.found THEN EditReturn(s, "product_not_found")
            ELSE IF e.operation = "subtract" /\ newStock < 0
                 THEN EditReturn(s, "insufficient_stock")
            ELSE edit' = [edit EXCEPT ![s] =
                            [e EXCEPT !.newStock = newStock, !.pc = "s_put"]]
    /\ UNCHANGED <<products, edits>>

\* productRepo.UpdateStock(ctx, id, newStock)
UpdateStockWrite(s) ==
    LET e == edit[s] IN
    /\ e.pc = "s_put"
    /\ \E err \in DBErrors :
         /\ Fault(err)
         /\ IF err
            THEN /\ UNCHANGED products
                 /\ EditReturn(s, "db_error")
            ELSE /\ products' = ProductUpdateStock(products, e.id, e.newStock)
                 /\ EditReturn(s, "ok")
    /\ UNCHANGED edits

\* ------------------------------------------------------------ IPRateLimiter
\* RateLimitMiddleware: ip := c.ClientIP(); limiter.getLimiter(ip)
RateLimitMiddleware(r) ==
    /\ req[r].pc = "idle"
    /\ \A q \in Requests : q < r => req[q].pc # "idle"
    /\ \E ip \in IPs :
         req' = [req EXCEPT ![r] = [NoRequest EXCEPT !.pc = "rlock", !.ip = ip]]
    /\ UNCHANGED <<limiters, mu, created, resets, cleanup>>

\* i.mu.RLock()
GetRLock(r) ==
    /\ req[r].pc = "rlock"
    /\ mu.writer = NoHolder
    /\ mu' = [mu EXCEPT !.readers = @ \cup {r}]
    /\ req' = [req EXCEPT ![r].pc = "read"]
    /\ UNCHANGED <<limiters, created, resets, cleanup>>

\* limiter, exists := i.limiters[ip]
GetRead(r) ==
    LET q == req[r]
        exists == q.ip \in DOMAIN limiters
    IN
    /\ q.pc = "read"
    /\ req' = [req EXCEPT ![r] =
                 [q EXCEPT !.pc = "runlock",
                           !.exists = exists,
                           !.limiter = IF exists THEN limiters[q.ip] ELSE 0,
                           !.missed = ~exists,
                           !.epoch = resets]]
    /\ UNCHANGED <<limiters, mu, created, resets, cleanup>>

\* i.mu.RUnlock(); if exists { return limiter }
GetRUnlock(r) ==
    /\ req[r].pc = "runlock"
    /\ mu' = [mu EXCEPT !.readers = @ \ {r}]
    /\ req' = [req EXCEPT ![r].pc = IF req[r].exists THEN "done" ELSE "lock"]
    /\ UNCHANGED <<limiters, created, resets, cleanup>>

\* i.mu.Lock(); defer i.mu.Unlock()
GetLock(r) ==
    /\ req[r].pc = "lock"
    /\ mu.writer = NoHolder /\ mu.readers = {}
    /\ mu' = [mu EXCEPT !.writer = r]
    /\ req' = [req EXCEPT ![r].pc = "check"]
    /\ UNCHANGED <<limiters, created, resets, cleanup>>

\* Mutation of the double check: the map is not read again under the write
\* lock.
GetCheckNoRecheck(r) ==
    /\ req[r].pc = "check"
    /\ req' = [req EXCEPT ![r].pc = "new"]
    /\ UNCHANGED <<limiters, mu, created, resets, cleanup>>

\* Double-check after acquiring write lock:
\* if limiter, exists := i.limiters[ip]; exists { return limiter }
GetCheck(r) ==
    LET q == req[r] IN
    /\ q.pc = "check"
    /\ req' = [req EXCEPT ![r] =
                 IF q.ip \in DOMAIN limiters
                 THEN [q EXCEPT !.pc = "unlock", !.exists = TRUE,
                                !.limiter = limiters[q.ip], !.epoch = resets]
                 ELSE [q EXCEPT !.pc = "new"]]
    /\ UNCHANGED <<limiters, mu, created, resets, cleanup>>

\* limiter = rate.NewLimiter(i.rps, i.burst); i.limiters[ip] = limiter.
\* NewLimiter returns a pointer no earlier call returned.
GetCreate(r) ==
    LET q == req[r] IN
    /\ q.pc = "new"
    /\ created' = created + 1
    /\ limiters' = (q.ip :> created') @@ limiters
    /\ req' = [req EXCEPT ![r] =
                 [q EXCEPT !.pc = "unlock", !.limiter = created',
                           !.epoch = resets]]
    /\ UNCHANGED <<mu, resets, cleanup>>

\* return limiter, and the deferred i.mu.Unlock()
GetUnlock(r) ==
    /\ req[r].pc = "unlock"
    /\ mu' = [mu EXCEPT !.writer = NoHolder]
    /\ req' = [req EXCEPT ![r].pc = "done"]
    /\ UNCHANGED <<limiters, created, resets, cleanup>>

\* Cleanup, run by the ticker of StartCleanup: i.mu.Lock()
CleanupLock ==
    /\ cleanup.pc = "idle" /\ cleanup.runs < MaxCleanups
    /\ mu.writer = NoHolder /\ mu.readers = {}
    /\ mu' = [mu EXCEPT !.writer = Cleaner]
    /\ cleanup' = [cleanup EXCEPT !.pc = "locked"]
    /\ UNCHANGED <<limiters, created, resets, req>>

\* if len(i.limiters) > 10000 { i.limiters = make(map[string]*rate.Limiter) }
\* with MaxLimiters standing for the 10000.
CleanupReset ==
    /\ cleanup.pc = "locked"
    /\ IF Cardinality(DOMAIN limiters) > MaxLimiters
       THEN limiters' = <<>> /\ resets' = resets + 1
       ELSE UNCHANGED <<limiters, resets>>
    /\ cleanup' = [cleanup EXCEPT !.pc = "unlock"]
    /\ UNCHANGED <<mu, created, req>>

\* the deferred i.mu.Unlock() of Cleanup
CleanupUnlock ==
    /\ cleanup.pc = "unlock"
    /\ mu' = [mu EXCEPT !.writer = NoHolder]
    /\ cleanup' = [pc |-> "idle", runs |-> cleanup.runs + 1]
    /\ UNCHANGED <<limiters, created, resets, req>>

\* ------------------------------------------------------------ specification
\* The sale engine leaves the stock edits and the rate limiter alone.
SaleFrame == UNCHANGED <<editVars, limiterVars>>

\* Requests are served concurrently, one call per worker.
Next ==
    \E s \in Slots :
       \/ StartCreate(s) /\ SaleFrame
       \/ CreateGetProduct(s) /\ SaleFrame
       \/ CreateUpdateStock(s) /\ SaleFrame
       \/ CreatePersistNoDiscount(s) /\ SaleFrame
       \/ CreateGetCustomer(s) /\ SaleFrame
       \/ CreateUpdateLoyaltyPoints(s) /\ SaleFrame
       \/ StartUpdate(s) /\ SaleFrame
       \/ UpdateLoad(s) /\ SaleFrame
       \/ UpdateGetProduct(s) /\ SaleFrame
       \/ UpdateRestoreStock(s) /\ SaleFrame
       \/ UpdateWriteStatus(s) /\ SaleFrame

Spec == Init /\ [][Next]_vars

Quiescent == \A s \in Slots : ~InFlight(call[s])

\* Requests are served one after the other: a call starts when no call is
\* in flight.
NextSerial ==
    \E s \in Slots :
       \/ Quiescent /\ StartCreate(s) /\ SaleFrame
       \/ CreateGetProduct(s) /\ SaleFrame
       \/ CreateUpdateStock(s) /\ SaleFrame
       \/ CreatePersist(s) /\ SaleFrame
       \/ CreateGetCustomer(s) /\ SaleFrame
       \/ CreateUpdateLoyaltyPoints(s) /\ SaleFrame
       \/ Quiescent /\ StartUpdate(s) /\ SaleFrame
       \/ UpdateLoad(s) /\ SaleFrame
       \/ UpdateGetProduct(s) /\ SaleFrame
       \/ UpdateRestoreStock(s) /\ SaleFrame
       \/ UpdateWriteStatus(s) /\ SaleFrame

SpecSerial == Init /\ [][NextSerial]_vars

\* Stock edits of the product service, served concurrently.
NextProduct ==
    \E s \in Slots :
       \/ StartUpdateStock(s) /\ UNCHANGED <<saleVars, limiterVars>>
       \/ UpdateStockGetProduct(s) /\ UNCHANGED <<saleVars, limiterVars>>
       \/ UpdateStockWrite(s) /\ UNCHANGED <<saleVars, limiterVars>>

SpecProduct == Init /\ [][NextProduct]_vars

\* Requests through RateLimitMiddleware, one goroutine each, and the Cleanup
\* goroutine.
NextLimiter ==
    \/ \E r \in Requests :
          \/ RateLimitMiddleware(r) /\ UNCHANGED <<products, faults, saleVars, editVars>>
          \/ GetRLock(r) /\ UNCHANGED <<products, faults, saleVars, editVars>>
          \/ GetRead(r) /\ UNCHANGED <<products, faults, saleVars, editVars>>
          \/ GetRUnlock(r) /\ UNCHANGED <<products, faults, saleVars, editVars>>
          \/ GetLock(r) /\ UNCHANGED <<products, faults, saleVars, editVars>>
          \/ GetCheck(r) /\ UNCHANGED <<products, faults, saleVars, editVars>>
          \/ GetCreate(r) /\ UNCHANGED <<products, faults, saleVars, editVars>>
          \/ GetUnlock(r) /\ UNCHANGED <<products, faults, saleVars, editVars>>
    \/ CleanupLock /\ UNCHANGED <<products, faults, saleVars, editVars>>
    \/ CleanupReset /\ UNCHANGED <<products, faults, saleVars, editVars>>
    \/ CleanupUnlock /\ UNCHANGED <<products, faults, saleVars, editVars>>

SpecLimiter == Init /\ [][NextLimiter]_vars

TypeOK ==
    /\ \A p \in ProductRows : products[p].stock \in Int
    /\ uuids + updates <= MaxOps

\* ------------------------------------------------------------------ helpers
\* Sum of the quantities of the line items that name product p.
RECURSIVE SumQty(_, _)
SumQty(items, p) ==
    IF items = <<>> THEN 0
    ELSE (IF Head(items).product_id = p THEN Head(items).quantity ELSE 0)
         + SumQty(Tail(items), p)

\* Sum over the persisted sales with id <= n of their quantities of product
\* p; txns is the transaction_items table.
RECURSIVE SoldQty(_, _, _)
SoldQty(txns, n, p) ==
    IF n = 0 THEN 0
    ELSE (IF n \in DOMAIN txns THEN SumQty(txns[n], p) ELSE 0)
         + SoldQty(txns, n - 1, p)

\* The step is the return of the call on worker s.
Returns(s) == InFlight(call[s]) /\ call'[s].pc = "done"

InventoryErrors == {"product_not_found", "product_inactive", "insufficient_stock"}

\* The errors transactionRepo.Create returns.
PersistErrors ==
    {"persist_error", "check_violation", "duplicate_invoice",
     "customer_fk_violation", "duplicate_key"}

TerminalStatuses == {StatusCancelled, StatusRefunded}

LegalTransitions ==
    {<<StatusPending, StatusCompleted>>, <<StatusPending, StatusCancelled>>,
     <<StatusCompleted, StatusRefunded>>}

\* ------------------------------------------------------------------- claims

\* C1: no oversell.  With only Create calls running, the line-item
\* quantities of the persisted sales of a product never add up to more than
\* the stock the product started with.
C1_NoOversell ==
    updates = 0 =>
        \A p \in ProductRows : SoldQty(transaction_items, uuids, p) <= InitStock

\* C2: atomic rollback.  When a Create that ran alone returns a
\* product-not-found, inactive or insufficient-stock error after it has
\* processed at least one line item, every product has the stock it had
\* before the call.
C2_AtomicRollback ==
    [][\A s \in Slots :
         ( /\ Returns(s)
           /\ call[s].kind = "create" /\ call[s].solo
           /\ Len(call[s].items) >= 1
           /\ call'[s].result \in InventoryErrors )
         => Stock(products') = call[s].pre]_vars

\* C3: when transactionRepo.Create fails in a Create that ran alone and had
\* decremented stock, every product has the stock it had before the call.
C3_PersistFailureRestoresStock ==
    [][\A s \in Slots :
         ( /\ Returns(s)
           /\ call[s].kind = "create" /\ call[s].solo
           /\ Len(call[s].items) >= 1
           /\ call'[s].result \in PersistErrors )
         => Stock(products') = call[s].pre]_vars

\* C4: one sale was created and only UpdateStatus calls followed, none of
\* them hit a database error.  Once the sale is refunded and no call is in
\* flight, every product is back at its pre-sale stock: the quantities were
\* restored once, however the requests interleaved.
C4_RestoreOnceUnderRace ==
    ( /\ Quiescent
      /\ faults = 0
      /\ uuids = 1 /\ 1 \in DOMAIN transactions
      /\ transactions[1].status = StatusRefunded )
    => \A p \in ProductRows : products[p].stock = InitStock

\* C5: state machine closure.  An UpdateStatus call on a sale with line
\* items returns success only for pending->completed, pending->cancelled and
\* completed->refunded, taking as source the status the call itself read.
C5_OnlyLegalTransitions ==
    [][\A s \in Slots :
         ( /\ Returns(s)
           /\ call[s].kind = "update"
           /\ Len(call[s].items) >= 1
           /\ call'[s].result = "ok" )
         => <<call[s].txnStatus, call[s].status>> \in LegalTransitions]_vars

\* C6: terminal states.  In a run without database errors, an UpdateStatus
\* call that ran alone and read the sale (a sale with line items) as
\* cancelled or refunded leaves the transactions table and the stock of
\* every product as they are.
C6_TerminalStaysTerminal ==
    [][\A s \in Slots :
         ( /\ faults = 0
           /\ call[s].kind = "update" /\ call[s].solo
           /\ call[s].pc \in {"u_get", "u_stock", "u_status"}
           /\ Len(call[s].items) >= 1
           /\ call[s].txnStatus \in TerminalStatuses )
         => /\ transactions' = transactions
            /\ Stock(products') = Stock(products)]_vars

\* C7: the restore is atomic with respect to reservations.  When the
\* UpdateStatus call is the only one the run has started, so that every other
\* stock write is the reservation of a Create, each of its stock writes
\* raises the stock the product has at that moment by the item's quantity.
C7_RestoreAtomicWithReserve ==
    [][\A s \in Slots :
         ( /\ updates = 1
           /\ call[s].kind = "update" /\ call[s].pc = "u_stock"
           /\ call'[s].pc # "u_stock"
           /\ faults' = faults )
         => LET item == call[s].items[call[s].idx] IN
            products'[item.product_id].stock
                 = products[item.product_id].stock + item.quantity]_vars

\* C8: the stock of every product is >= 0 in every reachable state.
C8_StockNeverNegative ==
    \A p \in ProductRows : products[p].stock >= 0

\* C9: round trip of compensation.  A cancelled request on a sale that
\* Create persisted and nothing has touched since (its stored status is
\* completed) is not refused.
C9_CancelAfterCreateSucceeds ==
    [][\A s \in Slots :
         ( /\ Returns(s)
           /\ call[s].kind = "update" /\ call[s].pc = "u_load"
           /\ call[s].status = StatusCancelled
           /\ call[s].id \in DOMAIN transactions
           /\ transactions[call[s].id].status = StatusCompleted
           /\ Len(transaction_items[call[s].id]) >= 1
           /\ faults' = faults )
         => call'[s].result = "ok"]_vars

\* C10: a Create that ran alone and succeeded leaves every product with its
\* stock before the call minus the quantities of the call's line items for
\* that product; products the call does not name keep their stock.
C10_CreateLowersStockExactly ==
    [][\A s \in Slots :
         ( /\ Returns(s)
           /\ call[s].kind = "create" /\ call[s].solo
           /\ call'[s].result = "ok" )
         => \A p \in ProductRows :
              products'[p].stock = call[s].pre[p] - SumQty(call[s].items, p)]_vars

\* Witness of C10: the first call of the run was a Create with two line
\* items, it has returned success and its sale is persisted.
C10_Witness ==
    /\ uuids = 1 /\ updates = 0
    /\ \E s \in Slots :
         /\ call[s].kind = "create" /\ call[s].result = "ok"
         /\ \A t \in Slots \ {s} : call[t].pc = "idle"
    /\ 1 \in DOMAIN transactions
    /\ Len(transaction_items[1]) = 2
    /\ \A p \in ProductRows :
         products[p].stock = InitStock - SumQty(transaction_items[1], p)

\* The step is the transactionRepo.Create call of the Create on worker s.
PersistStep(s) ==
    /\ call[s].kind = "create" /\ call[s].pc = "c_loop"
    /\ \/ call'[s].pc = "l_get"
       \/ call'[s].pc = "done" /\ call'[s].result \in PersistErrors \cup {"ok"}

\* C11: the sale and its line items are one atomic write.  Every sale row
\* has its rows of transaction_items in every state, and the
\* transactionRepo.Create call of a Create either leaves both tables as they
\* were and returns an error, whatever statement failed, or adds the sale
\* row together with every line item the call built.
C11_SaleAndItemsAtomic ==
    [][/\ DOMAIN transactions' = DOMAIN transaction_items'
       /\ \A s \in Slots :
            PersistStep(s) =>
              \/ /\ call'[s].result \in PersistErrors
                 /\ transactions' = transactions
                 /\ transaction_items' = transaction_items
              \/ /\ call'[s].result \notin PersistErrors
                 /\ DOMAIN transactions' = DOMAIN transactions \cup {call[s].id}
                 /\ call[s].id \notin DOMAIN transactions
                 /\ transaction_items' =
                      (call[s].id :> call[s].items) @@ transaction_items]_vars

\* Witness of C11: a Create lowered the stock, a statement of its
\* transactionRepo.Create failed, and no sale and no line item is stored.
C11_Witness ==
    /\ \E s \in Slots : call[s].kind = "create" /\ call[s].result = "persist_error"
    /\ faults = 1 /\ uuids = 1
    /\ products[1].stock < InitStock
    /\ transactions = <<>> /\ transaction_items = <<>>

\* An item list that passes validation: not empty, every quantity positive.
ValidItems(items) ==
    /\ Len(items) >= 1
    /\ \A i \in 1..Len(items) : items[i].quantity >= 1

\* C12: a Create whose payment method is outside every allowed set is
\* rejected before any inventory mutation.  When its call, which ran alone
\* and whose items are valid, reaches transactionRepo.Create, every product
\* still has its pre-call stock.  (On POST /transactions such a request is refused by the handler
\* and never reaches the service.)
C12_InvalidPaymentRejectedEarly ==
    [][\A s \in Slots, prefix \in 1..NumPrefixes, discount \in DiscountInputs,
          customer \in CustomerInputs,
          payment \in PaymentInputs \ (DTOPaymentMethods \cup SchemaPaymentMethods) :
         ( /\ call[s].solo
           /\ ValidItems(call[s].items)
           /\ payment \in PaymentMethods(call[s].entry)
           /\ CreatePersistWith(s, 0, prefix, payment, discount, customer) )
         => Stock(products') = call[s].pre]_vars

\* C13: no Create call ever increases a product's stock: a stock write of
\* Create never leaves a product with more stock than it had.
C13_CreateNeverRaisesStock ==
    [][\A s \in Slots :
         ( /\ call[s].kind = "create" /\ call[s].pc = "c_stock"
           /\ call'[s].pc # "c_stock" )
         => \A p \in ProductRows : products'[p].stock <= products[p].stock]_vars

\* C14: a Create with an empty item list persists no sale: every persisted
\* sale has at least one line item.
C14_NoSaleWithoutItems ==
    \A id \in DOMAIN transaction_items : Len(transaction_items[id]) >= 1

\* C15: no persisted sale has a negative total amount; stated for the sales
\* whose item list is valid, so that only the discount can bring the total
\* below zero.
C15_TotalNeverNegative ==
    \A id \in DOMAIN transactions :
       ValidItems(transaction_items[id]) => transactions[id].total_amount >= 0

\* Sum of unit price x quantity over the line items.
RECURSIVE SumLines(_)
SumLines(items) ==
    IF items = <<>> THEN 0
    ELSE Head(items).unit_price * Head(items).quantity + SumLines(Tail(items))

\* The line items Create builds for products of the given prices and the
\* given quantities.
ExampleItems(lines) ==
    [i \in 1..Len(lines) |->
       [product_id |-> i, quantity |-> lines[i][2], unit_price |-> lines[i][1],
        subtotal |-> ItemSubtotal(lines[i][1], lines[i][2])]]

ExampleSale ==
    NewTransaction(ExampleItems(<<<<Amount(10000), 2>>, <<Amount(5000), 3>>>>),
                   1, "cash", 0, NoCustomer)

C17_CreatedAsCompleted ==
    [][\A s \in Slots :
         ( /\ Returns(s)
           /\ call[s].kind = "create"
           /\ call'[s].result = "ok" )
         => /\ call[s].id \in DOMAIN transactions'
            /\ transactions'[call[s].id].status = StatusCompleted]_vars

\* Witness of C17: the only call of the run, a Create for a customer, has
\* returned its sale, which is stored as completed.
C17_Witness ==
    /\ uuids = 1 /\ updates = 0 /\ Quiescent
    /\ \E s \in Slots : call[s].kind = "create" /\ call[s].result = "ok"
    /\ 1 \in DOMAIN transactions
    /\ transactions[1].customer_id \in CustomerRows
    /\ transactions[1].status = StatusCompleted

UniqueInvoices(txns) ==
    \A a, b \in DOMAIN txns :
       a # b => txns[a].invoice_number # txns[b].invoice_number

\* C18: no two persisted sales share an invoice number, and a Create whose
\* invoice number is the one of a persisted sale (its row is otherwise
\* acceptable) fails with the duplicate-invoice error and leaves both
\* tables as they were.
C18_InvoiceUnique ==
    [][/\ UniqueInvoices(transactions')
       /\ \A s \in Slots, prefix \in 1..NumPrefixes, discount \in DiscountInputs,
             customer \in {NoCustomer} \cup CustomerRows,
             payment \in PaymentInputs \cap SchemaPaymentMethods :
            ( /\ \E t \in DOMAIN transactions :
                    transactions[t].invoice_number = InvoiceNumber(prefix)
              /\ CreatePersistWith(s, 0, prefix, payment, discount, customer) )
            => /\ call'[s].result = "duplicate_invoice"
               /\ transactions' = transactions
               /\ transaction_items' = transaction_items]_vars

\* Witness of C18: with one sale persisted, a second Create has failed with
\* the duplicate-invoice error and the first sale is still the only one.
C18_Witness ==
    /\ \E s \in Slots : call[s].kind = "create" /\ call[s].result = "duplicate_invoice"
    /\ uuids = 2
    /\ DOMAIN transactions = {1}

\* The step is a step of the loyalty part of the Create on worker s.
LoyaltyStep(s) ==
    /\ call[s].kind = "create" /\ call[s].pc \in {"l_get", "l_put"}
    /\ call'[s] # call[s]

CallerErrors ==
    {"transaction_not_found", "cannot_be_cancelled", "cannot_be_refunded"}

\* C20: an UpdateStatus that fails because the sale does not exist or the
\* transition is not allowed fails on its first statement, and changes
\* neither the sales, nor their line items, nor the stock of any product.
C20_FailedUpdateChangesNothing ==
    [][\A s \in Slots :
         ( /\ Returns(s)
           /\ call[s].kind = "update"
           /\ call'[s].result \in CallerErrors )
         => /\ call[s].pc = "u_load"
            /\ transactions' = transactions
            /\ transaction_items' = transaction_items
            /\ products' = products]_vars

\* Witness of C20: a cancel of a stored sale with line items was refused;
\* the sale is still completed.
C20_Witness ==
    /\ \E s \in Slots : call[s].kind = "update" /\ call[s].result = "cannot_be_cancelled"
    /\ uuids = 1 /\ updates = 1
    /\ 1 \in DOMAIN transactions
    /\ Len(transaction_items[1]) >= 1
    /\ transactions[1].status = StatusCompleted

\* C21: a Create whose next line item names a product that does not exist,
\* is inactive or has less stock than the quantity asked returns a
\* product-not-found, inactive or insufficient-stock error on reading it, and
\* stores no sale and no line item.
C21_BadProductPersistsNothing ==
    [][\A s \in Slots, pid \in ProductIds, qty \in 1..MaxQty :
         LET product == ProductGetByID(products, pid) IN
         ( /\ CreateGetProductWith(s, pid, qty, FALSE)
           /\ \/ ~product.found
              \/ ~product.is_active
              \/ product.stock < qty )
         => /\ Returns(s)
            /\ call'[s].result \in InventoryErrors
            /\ transactions' = transactions
            /\ transaction_items' = transaction_items]_vars

\* Witness of C21: the only call of the run is a Create whose first line item
\* names an inactive product; it returned the error and nothing is stored.
C21_Witness ==
    /\ uuids = 1 /\ updates = 0 /\ faults = 0
    /\ \E s \in Slots : call[s].kind = "create" /\ call[s].result = "product_inactive"
    /\ transactions = <<>> /\ transaction_items = <<>>

\* C22: a status change asked by a cashier is answered 403 by RequireRole:
\* the request never becomes a call of the service, and the sales, their
\* line items and the stock of every product stay as they were; a request
\* that does start UpdateStatus comes from an admin or a manager.
C22_CashierCannotChangeStatus ==
    [][updates' # updates =>
         \A s \in Slots, id \in 0..MaxOps, status \in DTOStatuses :
           /\ StartUpdateWith(s, id, status, RoleCashier) =>
                /\ ~InFlight(call'[s])
                /\ call'[s].result = "forbidden"
                /\ transactions' = transactions
                /\ transaction_items' = transaction_items
                /\ products' = products
           /\ \A role \in RoleInputs :
                (StartUpdateWith(s, id, status, role) /\ InFlight(call'[s]))
                   => role \in {RoleAdmin, RoleManager}]_vars

\* Witness of C22: a sale is stored and completed, a cashier asked to change
\* its status and was answered 403; the sale is still completed and the stock
\* is what the sale left.
C22_Witness ==
    /\ uuids = 1 /\ updates = 1 /\ faults = 0
    /\ \E s \in Slots : call[s].kind = "update" /\ call[s].result = "forbidden"
    /\ 1 \in DOMAIN transactions
    /\ transactions[1].status = StatusCompleted
    /\ \A p \in ProductRows :
         products[p].stock = InitStock - SumQty(transaction_items[1], p)

\* C23: every step of an UpdateStatus call, whatever the call returns, leaves
\* the line items of every sale and every column of every sale but its
\* status as they were: invoice number, subtotal, tax, discount, total,
\* payment method and customer reference; and it adds or removes no sale.
C23_UpdateTouchesOnlyStatus ==
    [][\A s \in Slots :
         (call[s].kind = "update" /\ InFlight(call[s]) /\ call'[s] # call[s])
         => /\ transaction_items' = transaction_items
            /\ DOMAIN transactions' = DOMAIN transactions
            /\ \A id \in DOMAIN transactions :
                 [transactions'[id] EXCEPT !.status = transactions[id].status]
                   = transactions[id]]_vars

\* Witness of C23: a sale with a discount and a customer was refunded by an
\* UpdateStatus that returned success; its line items and its totals are the
\* ones Create computes from them.
C23_Witness ==
    /\ uuids = 1 /\ updates = 1
    /\ \E s \in Slots : call[s].kind = "update" /\ call[s].result = "ok"
    /\ 1 \in DOMAIN transactions
    /\ transactions[1].status = StatusRefunded
    /\ transactions[1].discount_amount = MaxDiscount
    /\ transactions[1].customer_id \in CustomerRows
    /\ Len(transaction_items[1]) = 2
    /\ transactions[1].subtotal = Subtotal(transaction_items[1])
    /\ transactions[1].total_amount =
         TotalAmount(transactions[1].subtotal, transactions[1].tax_amount, MaxDiscount)

\* C24: an UpdateStatus that ran alone, took a sale from completed to
\* refunded and returned success leaves every product with its stock before
\* the call plus the quantities of the sale's line items for that product.
C24_RefundRestoresStock ==
    [][\A s \in Slots :
         ( /\ Returns(s)
           /\ call[s].kind = "update" /\ call[s].solo
           /\ call[s].status = StatusRefunded
           /\ call[s].txnStatus = StatusCompleted
           /\ call'[s].result = "ok" )
         => \A p \in ProductRows :
              products'[p].stock = call[s].pre[p] + SumQty(call[s].items, p)]_vars

\* C27: when a statement of the restore fails in an UpdateStatus to cancelled
\* or refunded, the read of a line item's product or the write of its stock,
\* the call returns at that statement with an error and so never records
\* the status.
C27_FailedRestoreFailsUpdate ==
    [][\A s \in Slots :
         ( /\ call[s].kind = "update"
           /\ call[s].pc \in {"u_get", "u_stock"}
           /\ call'[s] # call[s]
           /\ faults' # faults )
         => /\ Returns(s)
            /\ call'[s].result # "ok"]_vars

\* C25: stock conservation.  In every state with no call in flight, reached
\* with no database error, every product has its initial stock minus the
\* line-item quantities for it of the stored sales whose status is completed
\* or pending.
C25_StockConservation ==
    (Quiescent /\ faults = 0) =>
        \A p \in ProductRows :
            products[p].stock =
                InitStock - SoldQty([id \in {i \in DOMAIN transactions :
                                               transactions[i].status \in
                                                 {StatusCompleted, StatusPending}}
                                       |-> transaction_items[id]], uuids, p)

\* C26: in a Create that runs alone, a line item for an active product is
\* accepted exactly when its quantity added to the quantities of the call's
\* earlier line items for the same product is at most the stock the product
\* had before the call; otherwise the call returns insufficient stock.  When
\* such a call succeeds the earlier items plus all the others are at most the
\* stock before the call, and the stock has dropped by their sum.
C26_SameProductItemsAddUp ==
    [][\A s \in Slots :
         /\ \A pid \in ProductRows, qty \in 1..MaxQty :
              ( /\ CreateGetProductWith(s, pid, qty, FALSE)
                /\ call[s].solo
                /\ products[pid].is_active )
              => IF SumQty(call[s].items, pid) + qty <= call[s].pre[pid]
                 THEN call'[s].pc = "c_stock"
                 ELSE call'[s].result = "insufficient_stock"
         /\ ( /\ Returns(s)
              /\ call[s].kind = "create" /\ call[s].solo
              /\ call'[s].result = "ok" )
            => \A p \in ProductRows :
                 /\ SumQty(call[s].items, p) <= call[s].pre[p]
                 /\ products'[p].stock = call[s].pre[p] - SumQty(call[s].items, p)]_vars

\* Witness of C26: a sale of one unit left one unit of stock; the next
\* Create, alone, had a first line item of one unit accepted and a second
\* line item for the same product refused: the stock is 0 and one unit is
\* sold.
C26_Witness ==
    /\ uuids = 2 /\ updates = 0 /\ faults = 0
    /\ DOMAIN transactions = {1}
    /\ SumQty(transaction_items[1], 1) = 1
    /\ products[1].stock = InitStock - 2
    /\ \E s \in Slots :
         call[s].kind = "create" /\ call[s].result = "insufficient_stock"

\* C28: in every state with no call in flight, reached with no database
\* error and no status change, where every stored sale has valid line
\* items, a customer has 10 points for every stored sale that names the
\* customer.
C28_LoyaltyCreditsAddUp ==
    ( /\ Quiescent /\ faults = 0 /\ updates = 0
      /\ \A id \in DOMAIN transactions : ValidItems(transaction_items[id]) ) =>
        \A c \in CustomerRows :
            customers[c].loyalty_points =
                LoyaltyPointsPerTransaction
                  * Cardinality({id \in DOMAIN transactions :
                                   transactions[id].customer_id = c})

\* C29: a ProductService.UpdateStock call, for every operation and every
\* quantity the validation accepts, either returns with no product at a
\* negative stock, or returns insufficient stock and leaves the stock as it
\* was.
C29_UpdateStockNeverNegative ==
    [][\A s \in Slots :
         (EditInFlight(edit[s]) /\ edit'[s].pc = "done")
         => \/ \A p \in ProductRows : products'[p].stock >= 0
            \/ /\ edit'[s].result = "insufficient_stock"
               /\ products' = products]_vars

\* C30: two requests from the same IP that got their limiter between the
\* same two resets of the map got the same limiter, and while no reset has
\* happened since, it is the one the map holds for the IP; no limiter is
\* held for two IPs.
C30_OneLimiterPerIP ==
    /\ \A a, b \in Requests :
         ( /\ req[a].limiter # 0 /\ req[b].limiter # 0
           /\ req[a].ip = req[b].ip
           /\ req[a].epoch = req[b].epoch )
         => req[a].limiter = req[b].limiter
    /\ \A a \in Requests :
         (req[a].limiter # 0 /\ req[a].epoch = resets)
         => /\ req[a].ip \in DOMAIN limiters
            /\ limiters[req[a].ip] = req[a].limiter
    /\ \A i, j \in DOMAIN limiters : limiters[i] = limiters[j] => i = j

\* Witness of C30: two requests from the same IP both found no limiter under
\* the read lock, both went through the write lock, and both returned the
\* same limiter, the only one ever made, with no reset of the map.
C30_Witness ==
    /\ resets = 0 /\ created = 1
    /\ \E a, b \in Requests :
         /\ a # b
         /\ req[a].pc = "done" /\ req[b].pc = "done"
         /\ req[a].ip = req[b].ip
         /\ req[a].missed /\ req[b].missed
         /\ req[a].limiter = req[b].limiter
         /\ limiters[req[a].ip] = req[a].limiter

====
